---- MODULE Spec2Model ----
(***************************************************************************)
(* Refresh-token authentication and session rotation of the blog backend.  *)
(*                                                                         *)
(* services/authService.js (AuthService), utils/jwt.js (token codec),      *)
(* controllers/authController.js and middlewares/auth.js (HTTP binding).   *)
(* models/User.js is not part of the sources at hand: the document methods *)
(* addRefreshToken, removeRefreshToken, clearRefreshTokens and             *)
(* comparePassword follow the design document.  Fields of the user        *)
(* document that no handler modelled here reads (firstName, lastName,      *)
(* avatar, lastLogin, emailVerified) are left out of the state.            *)
(*                                                                         *)
(* A JWT is modelled by what determines its string: the payload shape      *)
(* (typ), the user id in the payload, iat and exp in whole seconds, and    *)
(* the secret that signed it.  Two signatures of the same payload with     *)
(* the same secret in the same second are the same string.                 *)
(***************************************************************************)
EXTENDS Integers, Sequences, FiniteSets, TLC

\* ---------------------------------------------------------------- bounds
MaxTime == 2
MaxTokens == 2
MaxIssued == 2
NumWorkers == 2
MaxPosts == 1
MaxViews == 1
MaxComments == 1
MaxFlights == 2

\* token lifetimes in clock ticks: the defaults of JWT_REFRESH_EXPIRE (30d)
\* and of JWT_EXPIRE (7d); one tick stands for a week or so
RefreshTTL == 2
AccessTTL == 1

\* maxAge of the refresh cookie: 30 days
CookieMaxAge == 2

\* apiLimiter: the requests one address may send to /api in a window (100)
ApiLimit == 6

\* the values JWT_REFRESH_EXPIRE is given: unset (0) or '7d' as in the README
RefreshExpiries == {0, 1}

Emails == {"e1", "e2"}
Usernames == {"n1", "n2"}
Passwords == {"p1", "p2"}
\* the auth handlers never read the role; the blog's accounts (Accounts) add 'admin'
Roles == {"user"}
Titles == {"t1", "t2"}
Secrets == {"s1", "s2"}
Workers == 1..NumWorkers

VARIABLES users, now, env, issued, last, procs, posts, comments, client, hits, inflight, redis

\* the blog's collections, and what stands in front of the API: the browser,
\* the rate limiter and the response cache
blog == <<posts, comments>>

front == <<client, hits, inflight, redis>>

vars == <<users, now, env, issued, last, procs, posts, comments, client, hits, inflight, redis>>

\* ------------------------------------------------------------ token codec
NoToken == [typ |-> "none", uid |-> 0, iat |-> 0, exp |-> 0, key |-> "none"]

\* a token signed by somebody who does not know the server's secrets
ForgedToken == [typ |-> "refresh", uid |-> 1, iat |-> 0, exp |-> MaxTime + 2, key |-> "forged"]

generateAccessToken(uid, clk, e) ==
    [typ |-> "access", uid |-> uid, iat |-> clk, exp |-> clk + AccessTTL, key |-> e.JWT_SECRET]

\* expiresIn: process.env.JWT_REFRESH_EXPIRE || '30d' (0 stands for unset)
RefreshLifetime(e) == IF e.JWT_REFRESH_EXPIRE = 0 THEN RefreshTTL ELSE e.JWT_REFRESH_EXPIRE

generateRefreshToken(uid, clk, e) ==
    [typ |-> "refresh", uid |-> uid, iat |-> clk, exp |-> clk + RefreshLifetime(e),
     key |-> e.JWT_REFRESH_SECRET]

\* jwt.verify: signature first, then expiry (clock >= exp is expired)
jwtVerify(t, secret, clk) ==
    IF t.key # secret THEN "JsonWebTokenError"
    ELSE IF clk >= t.exp THEN "TokenExpiredError"
    ELSE "ok"

\* verifyAccessToken that checks the signature only
verifyAccessToken_IgnoresExpiry(t, clk, e) ==
    IF t.key = e.JWT_SECRET THEN [ok |-> TRUE, msg |-> "", userId |-> t.uid]
    ELSE [ok |-> FALSE, msg |-> "Invalid access token", userId |-> 0]

verifyAccessToken(t, clk, e) ==
    LET r == jwtVerify(t, e.JWT_SECRET, clk) IN
    IF r = "ok" THEN [ok |-> TRUE, msg |-> "", userId |-> t.uid]
    ELSE IF r = "TokenExpiredError"
         THEN [ok |-> FALSE, msg |-> "Access token has expired", userId |-> 0]
         ELSE [ok |-> FALSE, msg |-> "Invalid access token", userId |-> 0]

\* verifyRefreshToken that answers every failure alike
verifyRefreshToken_OneMessage(t, clk, e) ==
    IF jwtVerify(t, e.JWT_REFRESH_SECRET, clk) = "ok" THEN [ok |-> TRUE, msg |-> "", userId |-> t.uid]
    ELSE [ok |-> FALSE, msg |-> "Invalid refresh token", userId |-> 0]

verifyRefreshToken(t, clk, e) ==
    LET r == jwtVerify(t, e.JWT_REFRESH_SECRET, clk) IN
    IF r = "ok" THEN [ok |-> TRUE, msg |-> "", userId |-> t.uid]
    ELSE IF r = "TokenExpiredError"
         THEN [ok |-> FALSE, msg |-> "Refresh token has expired", userId |-> 0]
         ELSE [ok |-> FALSE, msg |-> "Invalid refresh token", userId |-> 0]

\* an Authorization header that does not start with 'Bearer '
BasicHeader == [NoToken EXCEPT !.typ = "basic"]

\* the Authorization header is "Bearer <token>", of another scheme
\* (BasicHeader) or absent (NoToken)
extractTokenFromHeader(h) ==
    IF h = NoToken \/ h.typ = "basic" THEN [ok |-> FALSE, msg |-> "No valid token provided", token |-> NoToken]
    ELSE [ok |-> TRUE, msg |-> "", token |-> h]

\* ------------------------------------------------------ User document
RECURSIVE SeqWithout(_, _)
SeqWithout(s, x) ==
    IF s = <<>> THEN <<>>
    ELSE IF Head(s) = x THEN SeqWithout(Tail(s), x)
    ELSE <<Head(s)>> \o SeqWithout(Tail(s), x)

InSeq(s, x) == \E i \in 1..Len(s) : s[i] = x

\* bcrypt hash of the pre-save hook: never the plaintext
hashPassword(p) == <<"bcrypt", p>>

comparePassword(u, p) == u.password = hashPassword(p)

addRefreshToken(u, t) == [u EXCEPT !.refreshTokens = Append(@, t)]

removeRefreshToken(u, t) == [u EXCEPT !.refreshTokens = SeqWithout(@, t)]

\* clearRefreshTokens that spares the newest session
clearRefreshTokens_KeepsNewest(u) ==
    [u EXCEPT !.refreshTokens = IF @ = <<>> THEN <<>> ELSE <<@[Len(@)]>>]

clearRefreshTokens(u) == [u EXCEPT !.refreshTokens = <<>>]

UserIds(us) == 1..Len(us)

findById(us, id) == IF id \in UserIds(us) THEN id ELSE 0

\* emails are unique among the stored users of every sequential history
findOneByEmail(us, email) ==
    IF \E i \in UserIds(us) : us[i].email = email
    THEN CHOOSE i \in UserIds(us) : us[i].email = email
    ELSE 0

\* ---------------------------------------------------------- results
\* the user object of a response that carries none
NoUser == [id |-> 0, username |-> "", email |-> "", role |-> ""]

Ok(access, refresh) ==
    [ok |-> TRUE, status |-> 200, msg |-> "", access |-> access, refresh |-> refresh, user |-> NoUser]

Fail(status, msg) ==
    [ok |-> FALSE, status |-> status, msg |-> msg, access |-> NoToken, refresh |-> NoToken, user |-> NoUser]

Out(us, res) == [users |-> us, res |-> res]

\* ------------------------------------------------------------ AuthService
\* generateTokens that answers with the stored document
generateTokens_ReturnsDocument(us, i, clk, e) ==
    LET accessToken == generateAccessToken(i, clk, e)
        refreshToken == generateRefreshToken(i, clk, e)
    IN Out([us EXCEPT ![i] = addRefreshToken(@, refreshToken)],
           [Ok(accessToken, refreshToken) EXCEPT !.user = us[i]])

generateTokens(us, i, clk, e) ==
    LET accessToken == generateAccessToken(i, clk, e)
        refreshToken == generateRefreshToken(i, clk, e)
    IN Out([us EXCEPT ![i] = addRefreshToken(@, refreshToken)],
           [Ok(accessToken, refreshToken) EXCEPT
              !.user = [id |-> i, username |-> us[i].username, email |-> us[i].email, role |-> us[i].role]])

NewUser(d) ==
    [username |-> d.username, email |-> d.email, password |-> hashPassword(d.password),
     firstName |-> d.firstName, lastName |-> d.lastName, bio |-> "", avatar |-> "",
     role |-> d.role, isActive |-> TRUE, refreshTokens |-> <<>>]

\* User.create on a collection without unique indexes
createUser_NoIndex(us, d) == [ok |-> TRUE, users |-> Append(us, NewUser(d))]

\* User.create: the users collection has unique indexes on email and on
\* username, so the insert of a duplicate is refused (E11000)
createUser(us, d) ==
    IF \E i \in UserIds(us) : us[i].email = d.email \/ us[i].username = d.username
    THEN [ok |-> FALSE, users |-> us]
    ELSE [ok |-> TRUE, users |-> Append(us, NewUser(d))]

DuplicateKey == Fail(500, "E11000 duplicate key error")

\* existingUser is the document User.findOne({$or: [{email}, {username}]})
\* returned (0 for null); the caller picks it among the matching documents
register(us, d, existingUser, clk, e) ==
    IF existingUser # 0
    THEN IF us[existingUser].email = d.email
         THEN Out(us, Fail(409, "Email already registered"))
         ELSE Out(us, Fail(409, "Username already taken"))
    ELSE LET created == createUser(us, d) IN
         IF ~created.ok THEN Out(us, DuplicateKey)
         ELSE LET r == generateTokens(created.users, Len(created.users), clk, e)
              IN Out(r.users, [r.res EXCEPT !.status = 201])

\* login that tells a wrong password from an unknown account
login_TellsCause(us, email, password, clk, e) ==
    LET i == findOneByEmail(us, email) IN
    IF i = 0 \/ ~us[i].isActive
    THEN Out(us, Fail(401, "Invalid email or password"))
    ELSE IF ~comparePassword(us[i], password)
    THEN Out(us, Fail(401, "Incorrect password"))
    ELSE generateTokens(us, i, clk, e)

login(us, email, password, clk, e) ==
    LET i == findOneByEmail(us, email) IN
    IF i = 0 \/ ~us[i].isActive
    THEN Out(us, Fail(401, "Invalid email or password"))
    ELSE IF ~comparePassword(us[i], password)
    THEN Out(us, Fail(401, "Invalid email or password"))
    ELSE generateTokens(us, i, clk, e)

\* refreshToken that trusts the signature and skips the look-up in refreshTokens
refreshToken_NoListCheck(us, t, clk, e) ==
    LET decoded == verifyRefreshToken(t, clk, e)
        i == findById(us, decoded.userId)
    IN
    IF ~decoded.ok THEN Out(us, Fail(401, decoded.msg))
    ELSE IF i = 0 \/ ~us[i].isActive
    THEN Out(us, Fail(401, "User not found or inactive"))
    ELSE generateTokens([us EXCEPT ![i] = removeRefreshToken(@, t)], i, clk, e)

refreshToken(us, t, clk, e) ==
    LET decoded == verifyRefreshToken(t, clk, e)
        i == findById(us, decoded.userId)
    IN
    IF ~decoded.ok THEN Out(us, Fail(401, decoded.msg))
    ELSE IF i = 0 \/ ~us[i].isActive
    THEN Out(us, Fail(401, "User not found or inactive"))
    ELSE IF ~InSeq(us[i].refreshTokens, t)
    THEN Out([us EXCEPT ![i] = clearRefreshTokens(@)], Fail(401, "Invalid refresh token"))
    ELSE generateTokens([us EXCEPT ![i] = removeRefreshToken(@, t)], i, clk, e)

logout(us, userId, t) ==
    LET i == findById(us, userId) IN
    IF i # 0 /\ t # NoToken
    THEN [us EXCEPT ![i] = removeRefreshToken(@, t)]
    ELSE us

\* logoutAll that drops only the oldest session
logoutAll_DropsOne(us, userId) ==
    LET i == findById(us, userId) IN
    IF i # 0 /\ us[i].refreshTokens # <<>>
    THEN [us EXCEPT ![i].refreshTokens = Tail(@)]
    ELSE us

logoutAll(us, userId) ==
    LET i == findById(us, userId) IN
    IF i # 0 THEN [us EXCEPT ![i] = clearRefreshTokens(@)] ELSE us

\* changePassword that keeps the sessions open
changePassword_KeepsTokens(us, userId, currentPassword, newPassword) ==
    LET i == findById(us, userId) IN
    IF i = 0 THEN Out(us, Fail(404, "User not found"))
    ELSE IF ~comparePassword(us[i], currentPassword)
    THEN Out(us, Fail(401, "Current password is incorrect"))
    ELSE Out([us EXCEPT ![i].password = hashPassword(newPassword)],
             [Ok(NoToken, NoToken) EXCEPT !.msg = "Password changed successfully"])

changePassword(us, userId, currentPassword, newPassword) ==
    LET i == findById(us, userId) IN
    IF i = 0 THEN Out(us, Fail(404, "User not found"))
    ELSE IF ~comparePassword(us[i], currentPassword)
    THEN Out(us, Fail(401, "Current password is incorrect"))
    ELSE Out([us EXCEPT ![i] = clearRefreshTokens([@ EXCEPT !.password = hashPassword(newPassword)])],
             [Ok(NoToken, NoToken) EXCEPT !.msg = "Password changed successfully"])

getCurrentUser(us, userId) ==
    LET i == findById(us, userId) IN
    IF i = 0 \/ ~us[i].isActive THEN Out(us, Fail(404, "User not found"))
    ELSE Out(us, Ok(NoToken, NoToken))

AllowedUpdates == {"firstName", "lastName", "bio", "avatar"}

\* updateProfile that hands the whole body to findByIdAndUpdate
updateProfile_NoFilter(us, userId, updateData) ==
    LET i == findById(us, userId) IN
    IF i = 0 THEN Out(us, Fail(404, "User not found"))
    ELSE Out([us EXCEPT ![i] = [k \in DOMAIN us[i] |->
                                  IF k \in DOMAIN updateData THEN updateData[k] ELSE us[i][k]]],
             Ok(NoToken, NoToken))

\* updateData is the request body, an object with any keys; only the keys in
\* allowedUpdates reach User.findByIdAndUpdate
updateProfile(us, userId, updateData) ==
    LET updates == [k \in DOMAIN updateData \cap AllowedUpdates |-> updateData[k]]
        i == findById(us, userId)
    IN
    IF i = 0 THEN Out(us, Fail(404, "User not found"))
    ELSE Out([us EXCEPT ![i] = [k \in DOMAIN us[i] |->
                                  IF k \in DOMAIN updates THEN updates[k] ELSE us[i][k]]],
             Ok(NoToken, NoToken))

\* ------------------------------------------------ services/postService.js
\* The JavaScript values the ownership checks compare: null, an ObjectId
\* (req.user._id, post.author), the hex string of an id, another string.
Null == [t |-> "null", id |-> 0, txt |-> ""]

ObjectId(n) == [t |-> "ObjectId", id |-> n, txt |-> ""]

Str(x) == [t |-> "string", id |-> 0, txt |-> x]

toString(v) == IF v.t = "ObjectId" THEN [t |-> "string", id |-> v.id, txt |-> ""] ELSE v

\* a === b: strings are compared by value; an ObjectId is an object and is
\* equal only to itself, never to a string nor to another document's ObjectId
StrictEq(a, b) == a.t = "string" /\ b.t = "string" /\ a = b

isAdmin(userRole) == StrictEq(userRole, Str("admin"))

\* posts keeps every post ever created, _id being the position; a deleted
\* post keeps its place with exists = FALSE.  The slug is the title followed
\* by Date.now() of the save that set it, which differs from post to post.
Slug(ps, k) == [title |-> ps[k].title, stamp |-> k]

findPostById(ps, postId) == IF postId \in 1..Len(ps) /\ ps[postId].exists THEN postId ELSE 0

findPostBySlug(ps, slug) ==
    IF \E k \in 1..Len(ps) : ps[k].exists /\ Slug(ps, k) = slug
    THEN CHOOSE k \in 1..Len(ps) : ps[k].exists /\ Slug(ps, k) = slug
    ELSE 0

\* what is left of a deleted post: nothing but its place
Deleted == [title |-> "", published |-> FALSE, author |-> 0, views |-> 0, exists |-> FALSE]

PostOk(status, k) == [ok |-> TRUE, status |-> status, msg |-> "", post |-> k]

PostFail(status, msg) == [ok |-> FALSE, status |-> status, msg |-> msg, post |-> 0]

PostOut(ps, cs, res) == [posts |-> ps, comments |-> cs, res |-> res]

incrementViews(ps, k) == [ps EXCEPT ![k].views = @ + 1]

createPost(ps, cs, postData, authorId) ==
    LET post == [title |-> postData.title, published |-> postData.published,
                 author |-> authorId, views |-> 0, exists |-> TRUE]
    IN PostOut(Append(ps, post), cs, PostOk(201, Len(ps) + 1))

getPostById(ps, cs, postId, userId) ==
    LET k == findPostById(ps, postId) IN
    IF k = 0 THEN PostOut(ps, cs, PostFail(404, "Post not found"))
    ELSE IF /\ ~ps[k].published
            /\ \/ userId = Null
               \/ /\ ~StrictEq(toString(ObjectId(ps[k].author)), userId)
                  /\ ~isAdmin(userId)
    THEN PostOut(ps, cs, PostFail(404, "Post not found"))
    ELSE PostOut(IF ps[k].published THEN incrementViews(ps, k) ELSE ps, cs, PostOk(200, k))

getPostBySlug(ps, cs, slug, userId) ==
    LET k == findPostBySlug(ps, slug) IN
    IF k = 0 THEN PostOut(ps, cs, PostFail(404, "Post not found"))
    ELSE IF /\ ~ps[k].published
            /\ \/ userId = Null
               \/ /\ ~StrictEq(toString(ObjectId(ps[k].author)), userId)
                  /\ ~isAdmin(userId)
    THEN PostOut(ps, cs, PostFail(404, "Post not found"))
    ELSE PostOut(IF ps[k].published THEN incrementViews(ps, k) ELSE ps, cs, PostOk(200, k))

updatePost(ps, cs, postId, updateData, userId, userRole) ==
    LET k == findPostById(ps, postId) IN
    IF k = 0 THEN PostOut(ps, cs, PostFail(404, "Post not found"))
    ELSE IF ~StrictEq(toString(ObjectId(ps[k].author)), userId) /\ userRole # "admin"
    THEN PostOut(ps, cs, PostFail(403, "You can only update your own posts"))
    ELSE PostOut([ps EXCEPT ![k].title = updateData.title, ![k].published = updateData.published],
                 cs, PostOk(200, k))

deletePost(ps, cs, postId, userId, userRole) ==
    LET k == findPostById(ps, postId) IN
    IF k = 0 THEN PostOut(ps, cs, PostFail(404, "Post not found"))
    ELSE IF ~StrictEq(toString(ObjectId(ps[k].author)), userId) /\ userRole # "admin"
    THEN PostOut(ps, cs, PostFail(403, "You can only delete your own posts"))
    ELSE PostOut([ps EXCEPT ![k] = Deleted], {c \in cs : c.post # k}, PostOk(200, k))

\* services/commentService.js: a comment goes on a published post only
createComment(ps, cs, postId, authorId) ==
    LET k == findPostById(ps, postId) IN
    IF k = 0 \/ ~ps[k].published
    THEN PostOut(ps, cs, PostFail(404, "Post not found or not published"))
    ELSE PostOut(ps, cs \cup {[post |-> k, author |-> authorId, no |-> Cardinality(cs) + 1]},
                 PostOk(201, k))

\* ---------------------------------------------- controllers/postController.js
\* reqUser is req.user (0 when unset); its _id is an ObjectId
UserIdOf(reqUser) == IF reqUser = 0 THEN Null ELSE ObjectId(reqUser)

getPostByIdController(ps, cs, reqUser, postId) == getPostById(ps, cs, postId, UserIdOf(reqUser))

getPostBySlugController(ps, cs, reqUser, slug) == getPostBySlug(ps, cs, slug, UserIdOf(reqUser))

updatePostController(us, ps, cs, reqUser, postId, body) ==
    LET existingPost == getPostById(ps, cs, postId, ObjectId(reqUser)) IN
    IF ~existingPost.res.ok THEN existingPost
    ELSE updatePost(existingPost.posts, cs, postId, body, ObjectId(reqUser), us[reqUser].role)

deletePostController(us, ps, cs, reqUser, postId) ==
    deletePost(ps, cs, postId, ObjectId(reqUser), us[reqUser].role)

\* ------------------------------------------------------ middlewares/auth.js
\* authenticate that also asks for an open session
authenticate_ChecksSession(us, h, clk, e) ==
    LET x == extractTokenFromHeader(h)
        decoded == verifyAccessToken(x.token, clk, e)
        i == findById(us, decoded.userId)
    IN
    IF ~x.ok THEN [ok |-> FALSE, msg |-> x.msg, user |-> 0]
    ELSE IF ~decoded.ok THEN [ok |-> FALSE, msg |-> decoded.msg, user |-> 0]
    ELSE IF i = 0 \/ ~us[i].isActive \/ us[i].refreshTokens = <<>>
    THEN [ok |-> FALSE, msg |-> "User not found or inactive", user |-> 0]
    ELSE [ok |-> TRUE, msg |-> "", user |-> i]

\* ok: next() was called without an error and req.user is user; otherwise
\* next(error) with an AuthenticationError carrying msg, and req.user unset
authenticate(us, h, clk, e) ==
    LET x == extractTokenFromHeader(h)
        decoded == verifyAccessToken(x.token, clk, e)
        i == findById(us, decoded.userId)
    IN
    IF ~x.ok THEN [ok |-> FALSE, msg |-> x.msg, user |-> 0]
    ELSE IF ~decoded.ok THEN [ok |-> FALSE, msg |-> decoded.msg, user |-> 0]
    ELSE IF i = 0 \/ ~us[i].isActive
    THEN [ok |-> FALSE, msg |-> "User not found or inactive", user |-> 0]
    ELSE [ok |-> TRUE, msg |-> "", user |-> i]

\* optionalAuth that passes the error of a bad header or token on to next()
optionalAuth_ForwardsError(us, h, clk, e) ==
    LET a == authenticate(us, h, clk, e) IN
    IF h = NoToken THEN [ok |-> TRUE, msg |-> "", user |-> 0] ELSE a

\* the catch block swallows every error; next() is then called without one.
\* ok: next() was called without an error; user: req.user (0 when unset)
optionalAuth(us, h, clk, e) ==
    LET x == extractTokenFromHeader(h)
        decoded == verifyAccessToken(x.token, clk, e)
        i == findById(us, decoded.userId)
    IN
    [ok |-> TRUE, msg |-> "",
     user |-> IF h # NoToken /\ x.ok /\ decoded.ok /\ i # 0 /\ us[i].isActive THEN i ELSE 0]

\* ---------------------------------------------- controllers/authController.js
NoReq ==
    [cookie |-> NoToken, body |-> NoToken, email |-> "", username |-> "",
     password |-> "", newPassword |-> "", role |-> "", firstName |-> "", lastName |-> ""]

\* res.cookie('refreshToken', result.tokens.refreshToken, {maxAge: 30 days}),
\* reached only when the service has not thrown
SetCookie(o) ==
    [users |-> o.users, res |-> o.res,
     cookie |-> IF o.res.ok THEN [value |-> o.res.refresh, maxAge |-> CookieMaxAge]
                ELSE [value |-> NoToken, maxAge |-> 0]]

\* the register handler sets no cookie
registerController(us, req, existingUser, clk, e) ==
    [users |-> register(us, req, existingUser, clk, e).users,
     res |-> register(us, req, existingUser, clk, e).res,
     cookie |-> [value |-> NoToken, maxAge |-> 0]]

loginController(us, req, clk, e) == SetCookie(login(us, req.email, req.password, clk, e))

\* the data member of the JSON bodies: register sends the result of the
\* service as it is, login and refresh send the user and the access token
registerData(o) ==
    [user |-> o.res.user, tokens |-> [accessToken |-> o.res.access, refreshToken |-> o.res.refresh]]

loginData(o) == [user |-> o.res.user, accessToken |-> o.res.access]

refreshTokenController(us, req, clk, e) ==
    LET t == IF req.cookie # NoToken THEN req.cookie ELSE req.body IN
    IF t = NoToken THEN SetCookie(Out(us, Fail(401, "Refresh token not provided")))
    ELSE SetCookie(refreshToken(us, t, clk, e))

logoutController(us, reqUser, req) ==
    LET t == req.cookie IN
    Out(IF t # NoToken THEN logout(us, reqUser, t) ELSE us,
        [Ok(NoToken, NoToken) EXCEPT !.msg = "Logout successful"])

logoutAllController(us, reqUser) ==
    Out(logoutAll(us, reqUser), [Ok(NoToken, NoToken) EXCEPT !.msg = "Logged out from all devices"])

\* res.clearCookie('refreshToken') after the service call: reached only when
\* the service has not thrown
ClearCookie(o) == [users |-> o.users, res |-> o.res, cleared |-> o.res.ok]

\* a changePassword handler that clears the cookie before it calls the service
changePasswordController_ClearsFirst(us, reqUser, req) ==
    [ClearCookie(changePassword(us, reqUser, req.password, req.newPassword)) EXCEPT !.cleared = TRUE]

changePasswordController(us, reqUser, req) ==
    ClearCookie(changePassword(us, reqUser, req.password, req.newPassword))

getCurrentUserController(us, reqUser) == getCurrentUser(us, reqUser)

\* validate(updateProfileSchema): schema.validate with stripUnknown keeps the
\* keys of the schema and drops every other key of the body
ProfileSchemaKeys == {"firstName", "lastName", "bio"}

validateProfile(body) == [k \in DOMAIN body \cap ProfileSchemaKeys |-> body[k]]

updateProfileController(us, reqUser, body) == updateProfile(us, reqUser, body)

\* ------------------------------------------------------------------ state
\* users   the users collection, in insertion order; _id is the position
\* now     the server clock in seconds
\* env     process.env: the two signing secrets
\* issued  every token a response has carried so far
\* last    the request that succeeded last: its route and the user it concerned
\* procs   the refresh requests in flight, each with its own copy of the document
NoRes == [ok |-> FALSE, status |-> 0, msg |-> ""]

NoBody ==
    [username |-> "", email |-> "", password |-> "", role |-> "", firstName |-> "", lastName |-> ""]

Idle ==
    [pc |-> "idle", tok |-> NoToken, uid |-> 0, post |-> 0, doc |-> <<>>, res |-> NoRes, req |-> NoBody]

\* the browser before its first request: no access token in localStorage, no
\* refresh cookie, no request in flight
NoClient ==
    [access |-> NoToken, cookie |-> NoToken, calls |-> <<>>, refreshes |-> 0, sent |-> 0,
     outcome |-> "none"]

\* the server starts on empty collections with whatever its environment
\* holds; nothing checks that the two secrets differ
InitAny ==
    /\ users = <<>>
    /\ now = 0
    /\ env \in {[JWT_SECRET |-> "s1", JWT_REFRESH_SECRET |-> k, JWT_REFRESH_EXPIRE |-> x] :
                   k \in Secrets, x \in RefreshExpiries}
    /\ issued = {}
    /\ last = [op |-> "init", uid |-> 0, ok |-> TRUE]
    /\ procs = [w \in Workers |-> Idle]
    /\ posts = <<>>
    /\ comments = {}
    /\ client = NoClient
    /\ hits = 0
    /\ inflight = <<>>
    /\ redis = {}

\* the documented deployment: two different secrets, default lifetimes
Init ==
    /\ InitAny
    /\ env.JWT_SECRET # env.JWT_REFRESH_SECRET
    /\ env.JWT_REFRESH_EXPIRE = 0

InitAnySecrets ==
    /\ InitAny
    /\ env.JWT_REFRESH_EXPIRE = 0

InitAnyExpiry ==
    /\ InitAny
    /\ env.JWT_SECRET # env.JWT_REFRESH_SECRET

Minted(res) == {res.access, res.refresh} \ {NoToken}

RefreshTokensOf(i) == {t \in issued : t.typ = "refresh" /\ t.uid = i}

\* what a client can put in a request: a token some response carried, a
\* token of somebody who does not hold the secrets, or nothing
Presentable == issued \cup {ForgedToken, NoToken}

\* what an Authorization header can hold: nothing, another scheme, or Bearer
\* followed by a token a response carried, a forged one, or the access token
\* of an account that is no longer in the collection
Headers == Presentable \cup {BasicHeader, generateAccessToken(Len(users) + 1, now, env)}

\* a client keeps its refresh token in the cookie or sends it in the body
Carriers == {c \in [cookie : Presentable, body : Presentable] :
                c.cookie = NoToken \/ c.body = NoToken}

RECURSIVE TotalTokens(_)
TotalTokens(us) == IF us = <<>> THEN 0 ELSE Len(Head(us).refreshTokens) + TotalTokens(Tail(us))

\* the caps that keep the token lists and the set of minted tokens finite
Bounded(us, minted) ==
    /\ TotalTokens(us) <= MaxTokens
    /\ Cardinality({t \in issued \cup minted : t.typ = "refresh"}) <= MaxIssued

\* one whole request: the state it leaves and what the caller is told
Serve(op, uid, out) ==
    /\ Bounded(out.users, Minted(out.res))
    /\ users' = out.users
    /\ issued' = issued \cup Minted(out.res)
    /\ last' = IF out.res.ok THEN [op |-> op, uid |-> uid, ok |-> TRUE] ELSE last
    /\ UNCHANGED <<now, env, procs, blog, front>>

\* ---------------------------------------------------------------- actions
\* POST /auth/register with one of the bodies ds
RegisterWith(ds) ==
    \E d \in ds :
      LET matching == {i \in UserIds(users) :
                          users[i].email = d.email \/ users[i].username = d.username}
      IN \E existingUser \in (IF matching = {} THEN {0} ELSE matching) :
           Serve("register", existingUser, register(users, d, existingUser, now, env))

\* the bodies that arrive: two people with nothing in common, and a third
\* who asks for the email of the first and the username of the second
Signups ==
    {[NoReq EXCEPT !.username = "n1", !.email = "e1", !.password = "p1", !.role = "user",
              !.firstName = "f1", !.lastName = "l1"],
     [NoReq EXCEPT !.username = "n2", !.email = "e2", !.password = "p2", !.role = "user",
              !.firstName = "f1", !.lastName = "l1"],
     [NoReq EXCEPT !.username = "n2", !.email = "e1", !.password = "p1", !.role = "user",
              !.firstName = "f1", !.lastName = "l1"]}

Register == RegisterWith(Signups)

Login ==
    \E email \in Emails, password \in Passwords :
      LET req == [NoReq EXCEPT !.email = email, !.password = password] IN
      Serve("login", findOneByEmail(users, email), loginController(users, req, now, env))

RefreshToken ==
    \E c \in Carriers :
      LET req == [NoReq EXCEPT !.cookie = c.cookie, !.body = c.body]
          t == IF c.cookie # NoToken THEN c.cookie ELSE c.body
      IN Serve("refresh", t.uid, refreshTokenController(users, req, now, env))

\* the routes behind the authenticate middleware: a request it rejects is
\* answered 401 before the controller runs and changes nothing
Logout ==
    \E hdr \in Presentable :
      LET a == authenticate(users, hdr, now, env) IN
      /\ a.ok
      /\ \E c \in Carriers :
           LET req == [NoReq EXCEPT !.cookie = c.cookie, !.body = c.body] IN
           Serve("logout", a.user, logoutController(users, a.user, req))

LogoutAll ==
    \E hdr \in Presentable :
      LET a == authenticate(users, hdr, now, env) IN
      /\ a.ok
      /\ Serve("logoutAll", a.user, logoutAllController(users, a.user))

ChangePassword ==
    \E hdr \in Presentable :
      LET a == authenticate(users, hdr, now, env) IN
      /\ a.ok
      /\ \E cur \in Passwords, new \in Passwords :
           LET req == [NoReq EXCEPT !.password = cur, !.newPassword = new] IN
           Serve("changePassword", a.user, changePasswordController(users, a.user, req))

\* an account is switched off in the database: isActive is read by login,
\* refreshToken and authenticate, and written by no request handler
Deactivate ==
    \E i \in UserIds(users) :
      /\ users[i].isActive
      /\ Serve("deactivate", i, Out([users EXCEPT ![i].isActive = FALSE], Ok(NoToken, NoToken)))

Tick ==
    /\ now < MaxTime
    /\ now' = now + 1
    /\ UNCHANGED <<users, env, issued, last, procs, blog, front>>

\* every request is served to its end before the next one starts
Next ==
    \/ Register
    \/ Login
    \/ RefreshToken
    \/ Logout
    \/ LogoutAll
    \/ ChangePassword
    \/ Deactivate
    \/ Tick

Spec == Init /\ [][Next]_vars

SpecAnySecrets == InitAnySecrets /\ [][Next]_vars

SpecAnyExpiry == InitAnyExpiry /\ [][Next]_vars

\* ------------------------------------------------- refresh requests in flight
\* AuthService.refreshToken suspends at each await: after findById, after the
\* save inside clearRefreshTokens or removeRefreshToken, and after the save
\* inside addRefreshToken.  Each request works on the document it loaded; a
\* save stores that document's refreshTokens.
RefreshRead ==
    \E w \in Workers, t \in Presentable \ {NoToken} :
      LET decoded == verifyRefreshToken(t, now, env)
          i == findById(users, decoded.userId)
      IN /\ procs[w].pc = "idle"
         /\ procs' = [procs EXCEPT ![w] =
               IF ~decoded.ok
               THEN [Idle EXCEPT !.pc = "done", !.tok = t, !.res = Fail(401, decoded.msg)]
               ELSE IF i = 0 \/ ~users[i].isActive
               THEN [Idle EXCEPT !.pc = "done", !.tok = t, !.res = Fail(401, "User not found or inactive")]
               ELSE [Idle EXCEPT !.pc = IF InSeq(users[i].refreshTokens, t) THEN "remove" ELSE "clear",
                                 !.tok = t, !.uid = i, !.doc = users[i].refreshTokens]]
         /\ UNCHANGED <<users, now, env, issued, last, blog, front>>

RefreshClear ==
    \E w \in Workers :
      /\ procs[w].pc = "clear"
      /\ users' = [users EXCEPT ![procs[w].uid] = clearRefreshTokens(@)]
      /\ procs' = [procs EXCEPT ![w] = [@ EXCEPT !.pc = "done", !.doc = <<>>,
                                                 !.res = Fail(401, "Invalid refresh token")]]
      /\ UNCHANGED <<now, env, issued, last, blog, front>>

RefreshRemove ==
    \E w \in Workers :
      LET doc == SeqWithout(procs[w].doc, procs[w].tok) IN
      /\ procs[w].pc = "remove"
      /\ users' = [users EXCEPT ![procs[w].uid].refreshTokens = doc]
      /\ procs' = [procs EXCEPT ![w] = [@ EXCEPT !.pc = "add", !.doc = doc]]
      /\ UNCHANGED <<now, env, issued, last, blog, front>>

RefreshAdd ==
    \E w \in Workers :
      LET accessToken == generateAccessToken(procs[w].uid, now, env)
          refreshTok == generateRefreshToken(procs[w].uid, now, env)
          doc == Append(procs[w].doc, refreshTok)
      IN /\ procs[w].pc = "add"
         /\ Len(doc) <= MaxTokens
         /\ Cardinality({t \in issued \cup {refreshTok} : t.typ = "refresh"}) <= MaxIssued
         /\ users' = [users EXCEPT ![procs[w].uid].refreshTokens = doc]
         /\ issued' = issued \cup {accessToken, refreshTok}
         /\ procs' = [procs EXCEPT ![w] = [@ EXCEPT !.pc = "done", !.doc = doc,
                                                    !.res = Ok(accessToken, refreshTok)]]
         /\ UNCHANGED <<now, env, last, blog, front>>

\* the response has been sent; the worker takes the next request
RefreshReturn ==
    \E w \in Workers :
      /\ procs[w].pc = "done"
      /\ procs' = [procs EXCEPT ![w] = Idle]
      /\ UNCHANGED <<users, now, env, issued, last, blog, front>>

NextRace ==
    \/ Register
    \/ Tick
    \/ RefreshRead
    \/ RefreshClear
    \/ RefreshRemove
    \/ RefreshAdd
    \/ RefreshReturn

SpecRace == Init /\ [][NextRace]_vars

\* refresh requests in flight while their user signs out everywhere or
\* changes the password
NextRevoke ==
    \/ Register
    \/ LogoutAll
    \/ ChangePassword
    \/ RefreshRead
    \/ RefreshClear
    \/ RefreshRemove
    \/ RefreshAdd
    \/ RefreshReturn

SpecRevoke == Init /\ [][NextRevoke]_vars

\* ------------------------------------------------ register requests in flight
\* AuthService.register suspends after User.findOne, after User.create and
\* after the save inside generateTokens.
RegisterFind ==
    \E w \in Workers, username \in Usernames, email \in Emails, password \in Passwords,
       role \in Roles :
      LET d == [NoBody EXCEPT !.username = username, !.email = email, !.password = password,
                              !.role = role, !.firstName = "f1", !.lastName = "l1"]
          matching == {i \in UserIds(users) :
                          users[i].email = email \/ users[i].username = username}
      IN /\ procs[w].pc = "idle"
         /\ \E existingUser \in (IF matching = {} THEN {0} ELSE matching) :
              procs' = [procs EXCEPT ![w] =
                 IF existingUser = 0 THEN [Idle EXCEPT !.pc = "create", !.req = d]
                 ELSE [Idle EXCEPT !.pc = "done", !.req = d,
                                   !.res = register(users, d, existingUser, now, env).res]]
         /\ UNCHANGED <<users, now, env, issued, last, blog, front>>

RegisterCreate ==
    \E w \in Workers :
      LET created == createUser(users, procs[w].req) IN
      /\ procs[w].pc = "create"
      /\ users' = created.users
      /\ procs' = [procs EXCEPT ![w] =
            IF created.ok THEN [@ EXCEPT !.pc = "tokens", !.uid = Len(created.users)]
            ELSE [@ EXCEPT !.pc = "done", !.res = DuplicateKey]]
      /\ UNCHANGED <<now, env, issued, last, blog, front>>

RegisterTokens ==
    \E w \in Workers :
      LET r == generateTokens(users, procs[w].uid, now, env) IN
      /\ procs[w].pc = "tokens"
      /\ users' = r.users
      /\ issued' = issued \cup Minted(r.res)
      /\ procs' = [procs EXCEPT ![w] = [@ EXCEPT !.pc = "done", !.res = [r.res EXCEPT !.status = 201]]]
      /\ UNCHANGED <<now, env, last, blog, front>>

NextRegister ==
    \/ RegisterFind
    \/ RegisterCreate
    \/ RegisterTokens
    \/ RefreshReturn

SpecRegister == Init /\ [][NextRegister]_vars

\* -------------------------------------------------------------- the blog
RECURSIVE TotalViews(_)
TotalViews(ps) == IF ps = <<>> THEN 0 ELSE Head(ps).views + TotalViews(Tail(ps))

\* one request to the posts or comments API: the collections it leaves
ServeBlog(out) ==
    /\ Len(out.posts) <= MaxPosts
    /\ TotalViews(out.posts) <= MaxViews
    /\ Cardinality(out.comments) <= MaxComments
    /\ posts' = out.posts
    /\ comments' = out.comments
    /\ UNCHANGED <<users, now, env, issued, last, procs, front>>

PostIds == 1..MaxPosts

\* POST /posts with one of the bodies ds
CreatePostWith(ds) ==
    \E hdr \in Presentable, postData \in ds :
      LET a == authenticate(users, hdr, now, env) IN
      /\ a.ok
      /\ ServeBlog(createPost(posts, comments, postData, a.user))

CreatePost == CreatePostWith([title : Titles, published : BOOLEAN])

GetPostById ==
    \E hdr \in Headers, postId \in PostIds :
      LET o == optionalAuth(users, hdr, now, env) IN
      ServeBlog(getPostByIdController(posts, comments, o.user, postId))

GetPostBySlug ==
    \E hdr \in Headers, title \in Titles, stamp \in PostIds :
      LET o == optionalAuth(users, hdr, now, env) IN
      ServeBlog(getPostBySlugController(posts, comments, o.user, [title |-> title, stamp |-> stamp]))

UpdatePost ==
    \E hdr \in Presentable, postId \in PostIds, title \in Titles, published \in BOOLEAN :
      LET a == authenticate(users, hdr, now, env) IN
      /\ a.ok
      /\ ServeBlog(updatePostController(users, posts, comments, a.user, postId,
                                        [title |-> title, published |-> published]))

DeletePost ==
    \E hdr \in Presentable, postId \in PostIds :
      LET a == authenticate(users, hdr, now, env) IN
      /\ a.ok
      /\ ServeBlog(deletePostController(users, posts, comments, a.user, postId))

CreateComment ==
    \E hdr \in Presentable, postId \in PostIds :
      LET a == authenticate(users, hdr, now, env) IN
      /\ a.ok
      /\ ServeBlog(createComment(posts, comments, postId, a.user))

\* the people of the blog: a writer and an administrator
Accounts ==
    {[NoReq EXCEPT !.username = "n1", !.email = "e1", !.password = "p1", !.role = "user",
              !.firstName = "f1", !.lastName = "l1"],
     [NoReq EXCEPT !.username = "n2", !.email = "e2", !.password = "p1", !.role = "admin",
              !.firstName = "f1", !.lastName = "l1"]}

RegisterAccount == RegisterWith(Accounts)

NextPosts ==
    \/ RegisterAccount
    \/ Tick
    \/ CreatePost
    \/ GetPostById
    \/ GetPostBySlug
    \/ UpdatePost
    \/ DeletePost
    \/ CreateComment

SpecPosts == Init /\ [][NextPosts]_vars

\* the readers of the blog: accounts come and go, tokens expire, posts are
\* written, and everybody, signed in or not, reads them through optionalAuth
NextReaders ==
    \/ RegisterAccount
    \/ Tick
    \/ Deactivate
    \/ CreatePost
    \/ GetPostById
    \/ GetPostBySlug

SpecReaders == Init /\ [][NextReaders]_vars

\* ------------------------------------- login and logout requests in flight
\* AuthService.login suspends after User.findOne and comparePassword; the
\* save of lastLogin writes no token; generateTokens then runs on the
\* document the request loaded (RefreshAdd is that step).
LoginRead ==
    \E w \in Workers, email \in Emails, password \in Passwords :
      LET i == findOneByEmail(users, email) IN
      /\ procs[w].pc = "idle"
      /\ procs' = [procs EXCEPT ![w] =
            IF i = 0 \/ ~users[i].isActive \/ ~comparePassword(users[i], password)
            THEN [Idle EXCEPT !.pc = "done", !.res = Fail(401, "Invalid email or password")]
            ELSE [Idle EXCEPT !.pc = "add", !.uid = i, !.doc = users[i].refreshTokens]]
      /\ UNCHANGED <<users, now, env, issued, last, blog, front>>

\* POST /auth/logout: AuthService.logout suspends after User.findById
LogoutRead ==
    \E w \in Workers, hdr \in Presentable, t \in Presentable \ {NoToken} :
      LET a == authenticate(users, hdr, now, env) IN
      /\ a.ok
      /\ procs[w].pc = "idle"
      /\ procs' = [procs EXCEPT ![w] =
            [Idle EXCEPT !.pc = "logout", !.tok = t, !.uid = a.user,
                         !.doc = users[a.user].refreshTokens]]
      /\ UNCHANGED <<users, now, env, issued, last, blog, front>>

\* user.removeRefreshToken on the document the logout loaded, then the answer
LogoutRemove ==
    \E w \in Workers :
      LET doc == SeqWithout(procs[w].doc, procs[w].tok) IN
      /\ procs[w].pc = "logout"
      /\ users' = [users EXCEPT ![procs[w].uid].refreshTokens = doc]
      /\ procs' = [procs EXCEPT ![w] =
            [@ EXCEPT !.pc = "done", !.doc = doc,
                      !.res = [Ok(NoToken, NoToken) EXCEPT !.msg = "Logout successful"]]]
      /\ UNCHANGED <<now, env, issued, last, blog, front>>

\* each worker serves one request: a login, a refresh or a logout
NextSessions ==
    \/ RegisterAccount
    \/ Tick
    \/ LoginRead
    \/ LogoutRead
    \/ LogoutRemove
    \/ RefreshRead
    \/ RefreshClear
    \/ RefreshRemove
    \/ RefreshAdd

SpecSessions == Init /\ [][NextSessions]_vars

\* ------------------------------- delete and comment requests in flight
\* PostService.deletePost suspends after Post.findById, after
\* Comment.deleteMany and after Post.findByIdAndDelete;
\* CommentService.createComment suspends after Post.findOne and after
\* Comment.create.
DeleteFind ==
    \E w \in Workers, hdr \in Presentable, postId \in PostIds :
      LET a == authenticate(users, hdr, now, env)
          k == findPostById(posts, postId)
      IN /\ a.ok
         /\ procs[w].pc = "idle"
         /\ procs' = [procs EXCEPT ![w] =
               IF k = 0
               THEN [Idle EXCEPT !.pc = "done", !.uid = a.user, !.res = PostFail(404, "Post not found")]
               ELSE IF ~StrictEq(toString(ObjectId(posts[k].author)), ObjectId(a.user))
                       /\ users[a.user].role # "admin"
               THEN [Idle EXCEPT !.pc = "done", !.uid = a.user,
                                 !.res = PostFail(403, "You can only delete your own posts")]
               ELSE [Idle EXCEPT !.pc = "purge", !.uid = a.user, !.post = k]]
         /\ UNCHANGED <<users, now, env, issued, last, blog, front>>

DeletePurge ==
    \E w \in Workers :
      /\ procs[w].pc = "purge"
      /\ comments' = {c \in comments : c.post # procs[w].post}
      /\ procs' = [procs EXCEPT ![w].pc = "remove"]
      /\ UNCHANGED <<users, now, env, issued, last, posts, front>>

DeleteRemove ==
    \E w \in Workers :
      /\ procs[w].pc = "remove"
      /\ posts' = [posts EXCEPT ![procs[w].post] = Deleted]
      /\ procs' = [procs EXCEPT ![w] = [@ EXCEPT !.pc = "done", !.res = PostOk(200, procs[w].post)]]
      /\ UNCHANGED <<users, now, env, issued, last, comments, front>>

CommentFind ==
    \E w \in Workers, hdr \in Presentable, postId \in PostIds :
      LET a == authenticate(users, hdr, now, env)
          k == findPostById(posts, postId)
      IN /\ a.ok
         /\ procs[w].pc = "idle"
         /\ procs' = [procs EXCEPT ![w] =
               IF k = 0 \/ ~posts[k].published
               THEN [Idle EXCEPT !.pc = "done", !.uid = a.user,
                                 !.res = PostFail(404, "Post not found or not published")]
               ELSE [Idle EXCEPT !.pc = "comment", !.uid = a.user, !.post = k]]
         /\ UNCHANGED <<users, now, env, issued, last, blog, front>>

CommentCreate ==
    \E w \in Workers :
      /\ procs[w].pc = "comment"
      /\ Cardinality(comments) < MaxComments
      /\ comments' = comments \cup {[post |-> procs[w].post, author |-> procs[w].uid,
                                     no |-> Cardinality(comments) + 1]}
      /\ procs' = [procs EXCEPT ![w] = [@ EXCEPT !.pc = "done", !.res = PostOk(201, procs[w].post)]]
      /\ UNCHANGED <<users, now, env, issued, last, posts, front>>

\* each worker serves one request: a delete or a comment
NextDelete ==
    \/ RegisterAccount
    \/ CreatePost
    \/ DeleteFind
    \/ DeletePurge
    \/ DeleteRemove
    \/ CommentFind
    \/ CommentCreate

SpecDelete == Init /\ [][NextDelete]_vars

\* ------------------------------------------------------------ the profile
\* bodies of PUT /auth/profile: the fields of the form, and with them keys a
\* client has no business sending
ProfileBodies ==
    {[firstName |-> "f2", role |-> "admin", refreshTokens |-> <<>>],
     [bio |-> "b1", avatar |-> "a1", email |-> "e2", isActive |-> FALSE,
      password |-> hashPassword("p2")]}

\* GET /auth/me
GetCurrentUser ==
    \E hdr \in Presentable :
      LET a == authenticate(users, hdr, now, env) IN
      /\ a.ok
      /\ Serve("getCurrentUser", a.user, getCurrentUserController(users, a.user))

\* PUT /auth/profile
UpdateProfile ==
    \E hdr \in Presentable :
      LET a == authenticate(users, hdr, now, env) IN
      /\ a.ok
      /\ \E body \in ProfileBodies :
           Serve("updateProfile", a.user,
                 updateProfileController(users, a.user, validateProfile(body)))

\* members sign up, look at and edit their profile, and write on the blog,
\* all within the life of their first access token
PublishPost == CreatePostWith({[title |-> "t1", published |-> TRUE]})

NextProfile ==
    \/ RegisterAccount
    \/ GetCurrentUser
    \/ UpdateProfile
    \/ PublishPost
    \/ CreateComment

SpecProfile == Init /\ [][NextProfile]_vars

\* ------------------------------------------------------ middlewares/cache.js
\* redis holds the stored responses: the key is the user id (0: 'anonymous')
\* and the URL /api/posts/:id, the value the status and the post sent.
CacheKey(e) == [user |-> e.user, post |-> e.post]

\* GET /posts/:id behind optionalAuth and cachePost: a stored response is
\* sent as it is; otherwise the controller reads the post and res.json,
\* which cache() has replaced, is still to be called
CacheGet ==
    \E w \in Workers, hdr \in Headers, postId \in PostIds :
      LET o == optionalAuth(users, hdr, now, env)
          cachedResponse == {e \in redis : CacheKey(e) = [user |-> o.user, post |-> postId]}
          out == getPostByIdController(posts, comments, o.user, postId)
      IN /\ procs[w].pc = "idle"
         /\ IF cachedResponse # {}
            THEN LET parsedResponse == CHOOSE e \in cachedResponse : TRUE IN
                 /\ procs' = [procs EXCEPT ![w] =
                       [Idle EXCEPT !.pc = "done", !.uid = o.user, !.post = postId,
                                    !.res = PostOk(parsedResponse.status, postId),
                                    !.doc = <<parsedResponse.data>>]]
                 /\ UNCHANGED posts
            ELSE /\ TotalViews(out.posts) <= MaxViews
                 /\ posts' = out.posts
                 /\ procs' = [procs EXCEPT ![w] =
                       [Idle EXCEPT !.pc = "json", !.uid = o.user, !.post = postId, !.res = out.res,
                                    !.doc = IF out.res.ok THEN <<out.posts[postId]>> ELSE <<>>]]
         /\ UNCHANGED <<users, now, env, issued, last, comments, front>>

\* res.json of cache(): a response with a 2xx status is stored under the key
CacheJson ==
    \E w \in Workers :
      LET p == procs[w] IN
      /\ p.pc = "json"
      /\ redis' = IF p.res.status >= 200 /\ p.res.status < 300
                  THEN {e \in redis : CacheKey(e) # [user |-> p.uid, post |-> p.post]}
                       \cup {[user |-> p.uid, post |-> p.post, status |-> p.res.status,
                              data |-> p.doc[1]]}
                  ELSE redis
      /\ procs' = [procs EXCEPT ![w].pc = "done"]
      /\ UNCHANGED <<users, now, env, issued, last, blog, client, hits, inflight>>

\* a write behind invalidatePostsCache: the controller has written, and
\* res.json, which invalidateCache() has replaced, asks for the keys when the
\* status is 2xx
Invalidating(w, out) ==
    /\ procs[w].pc = "idle"
    /\ TotalViews(out.posts) <= MaxViews
    /\ posts' = out.posts
    /\ comments' = out.comments
    /\ procs' = [procs EXCEPT ![w] =
          [Idle EXCEPT !.pc = IF out.res.status >= 200 /\ out.res.status < 300 THEN "keys" ELSE "done",
                       !.res = out.res]]
    /\ UNCHANGED <<users, now, env, issued, last, front>>

\* PUT /posts/:id
CachedUpdate ==
    \E w \in Workers, hdr \in Presentable, postId \in PostIds :
      LET a == authenticate(users, hdr, now, env) IN
      /\ a.ok
      /\ Invalidating(w, updatePostController(users, posts, comments, a.user, postId,
                                              [title |-> "t2", published |-> TRUE]))

\* DELETE /posts/:id
CachedDelete ==
    \E w \in Workers, hdr \in Presentable, postId \in PostIds :
      LET a == authenticate(users, hdr, now, env) IN
      /\ a.ok
      /\ Invalidating(w, deletePostController(users, posts, comments, a.user, postId))

\* redisClient.keys('cache:*:/api/posts*') answers with the keys stored now
InvalidateKeys ==
    \E w \in Workers :
      /\ procs[w].pc = "keys"
      /\ procs' = [procs EXCEPT ![w] = [@ EXCEPT !.pc = "del", !.doc = <<{CacheKey(e) : e \in redis}>>]]
      /\ UNCHANGED <<users, now, env, issued, last, blog, front>>

\* redisClient.del(keys), which is not called for an empty list
InvalidateDel ==
    \E w \in Workers :
      /\ procs[w].pc = "del"
      /\ redis' = {e \in redis : CacheKey(e) \notin procs[w].doc[1]}
      /\ procs' = [procs EXCEPT ![w].pc = "done"]
      /\ UNCHANGED <<users, now, env, issued, last, blog, client, hits, inflight>>

NextCache ==
    \/ RegisterAccount
    \/ PublishPost
    \/ CacheGet
    \/ CacheJson
    \/ CachedUpdate
    \/ CachedDelete
    \/ InvalidateKeys
    \/ InvalidateDel
    \/ RefreshReturn

SpecCache == Init /\ [][NextCache]_vars

\* ------------------------------------------------------- the axios client
\* client.calls is the chain of requests whose promise is pending: the one
\* the page sent, then the POST /auth/refresh each response interceptor is
\* awaiting; the last of them is on the wire.  _retry is a flag of the config
\* object of one request; instance.post('/auth/refresh') builds a new config.
ApiRequest(url, tok) == [url |-> url, retry |-> FALSE, auth |-> tok]

\* localStorage keeps strings: setItem(key, undefined) stores 'undefined'
Undefined == [NoToken EXCEPT !.typ = "undefined"]

\* onSuccess of loginMutation and of registerMutation:
\* setAccessToken(data.accessToken); what getAccessToken() returns afterwards
onSuccess(data) == IF "accessToken" \in DOMAIN data THEN data.accessToken ELSE Undefined

\* the page signs in; the browser keeps the cookie, the client the access token
ClientLogin ==
    \E email \in Emails, password \in Passwords :
      LET req == [NoReq EXCEPT !.email = email, !.password = password]
          o == loginController(users, req, now, env)
      IN /\ client.calls = <<>>
         /\ inflight = <<>>
         /\ hits < ApiLimit
         /\ o.res.ok
         /\ Bounded(o.users, Minted(o.res))
         /\ users' = o.users
         /\ issued' = issued \cup Minted(o.res)
         /\ hits' = hits + 1
         /\ client' = [NoClient EXCEPT !.access = onSuccess(loginData(o)), !.cookie = o.cookie.value]
         /\ UNCHANGED <<now, env, last, procs, blog, redis, inflight>>

\* the page signs up; the response sets no cookie
ClientRegister ==
    \E d \in Signups :
      LET matching == {i \in UserIds(users) :
                          users[i].email = d.email \/ users[i].username = d.username}
      IN \E existingUser \in (IF matching = {} THEN {0} ELSE matching) :
           LET o == registerController(users, d, existingUser, now, env) IN
           /\ client.calls = <<>>
           /\ inflight = <<>>
           /\ hits < ApiLimit
           /\ o.res.ok
           /\ Bounded(o.users, Minted(o.res))
           /\ users' = o.users
           /\ issued' = issued \cup Minted(o.res)
           /\ hits' = hits + 1
           /\ client' = [NoClient EXCEPT !.access = onSuccess(registerData(o)),
                                         !.cookie = client.cookie]
           /\ UNCHANGED <<now, env, last, procs, blog, redis, inflight>>

\* the page calls a route behind authenticate; the request interceptor adds
\* the stored access token
ClientRequest ==
    /\ client.calls = <<>>
    /\ client' = [client EXCEPT !.calls = <<ApiRequest("/auth/me", client.access)>>,
                                !.refreshes = 0, !.sent = 1, !.outcome = "none"]
    /\ UNCHANGED <<users, now, env, issued, last, procs, blog, redis, hits, inflight>>

\* the server answers the request on the wire and the response interceptor
\* of the client runs on the answer
Respond ==
    LET n == Len(client.calls)
        top == client.calls[n]
        limited == hits >= ApiLimit
        a == authenticate(users, top.auth, now, env)
        o == IF top.url = "/auth/refresh" /\ ~limited
             THEN refreshTokenController(users, [NoReq EXCEPT !.cookie = client.cookie], now, env)
             ELSE SetCookie(Out(users, Fail(0, "")))
        status == IF limited THEN 429
                  ELSE IF top.url = "/auth/refresh" THEN o.res.status
                  ELSE IF a.ok THEN 200 ELSE 401
    IN /\ n > 0
       /\ Bounded(o.users, Minted(o.res))
       /\ users' = o.users
       /\ issued' = issued \cup Minted(o.res)
       /\ hits' = IF limited THEN hits ELSE hits + 1
       /\ client' =
            IF status = 200 /\ n = 1
            THEN [client EXCEPT !.calls = <<>>, !.outcome = "resolved"]
            ELSE IF status = 200
            THEN \* the awaited refresh succeeded: store the token, send the request again
                 LET below == client.calls[n - 1] IN
                 [client EXCEPT !.access = o.res.access,
                                !.cookie = o.cookie.value,
                                !.calls = Append(SubSeq(client.calls, 1, n - 2),
                                                 [below EXCEPT !.auth = o.res.access]),
                                !.refreshes = IF below.url = "/auth/refresh" THEN @ + 1 ELSE @,
                                !.sent = IF below.url = "/auth/refresh" THEN @ ELSE @ + 1]
            ELSE IF status = 401 /\ ~top.retry
            THEN [client EXCEPT !.calls = Append([client.calls EXCEPT ![n].retry = TRUE],
                                                 ApiRequest("/auth/refresh", client.access)),
                                !.refreshes = @ + 1]
            ELSE \* rejected: every interceptor that awaits clears the tokens and rejects
                 [client EXCEPT !.calls = <<>>, !.outcome = "rejected",
                                !.access = IF n > 1 THEN NoToken ELSE @]
       /\ UNCHANGED <<now, env, last, procs, blog, redis, inflight>>

NextClient ==
    \/ Register
    \/ Tick
    \/ ClientLogin
    \/ ClientRequest
    \/ Respond

SpecClient == Init /\ [][NextClient]_vars

\* the AuthContext of one browser: sign up, sign in, call the API
NextSignup ==
    \/ ClientRegister
    \/ ClientLogin
    \/ Tick
    \/ ClientRequest
    \/ Respond

SpecSignup == Init /\ [][NextSignup]_vars

\* ------------------------------------------- several requests of one client
\* inflight holds the requests the pages of one browser have sent, each with
\* its own config object and its own run of the response interceptor; the
\* access token (localStorage) and the cookie jar are shared by all of them.
\* A page calls the API while the browser holds a refresh cookie.
PageRequest ==
    /\ client.cookie # NoToken
    /\ Len(inflight) < MaxFlights
    /\ inflight' = Append(inflight, [pc |-> "sent", retry |-> FALSE, auth |-> client.access,
                                     cookie |-> NoToken])
    /\ UNCHANGED <<users, now, env, issued, last, procs, blog, redis, client, hits>>

\* the server answers a request to a route behind authenticate; on a 401 the
\* interceptor marks the config and posts /auth/refresh, to which the browser
\* attaches the cookie it holds at that moment
FlightAnswer ==
    \E k \in 1..Len(inflight) :
      LET f == inflight[k]
          limited == hits >= ApiLimit
          a == authenticate(users, f.auth, now, env)
          status == IF limited THEN 429 ELSE IF a.ok THEN 200 ELSE 401
      IN /\ f.pc = "sent"
         /\ hits' = IF limited THEN hits ELSE hits + 1
         /\ inflight' = [inflight EXCEPT ![k] =
               IF status = 200 THEN [f EXCEPT !.pc = "resolved"]
               ELSE IF status = 401 /\ ~f.retry
               THEN [f EXCEPT !.pc = "refreshing", !.retry = TRUE, !.cookie = client.cookie]
               ELSE [f EXCEPT !.pc = "rejected"]]
         /\ UNCHANGED <<users, now, env, issued, last, procs, blog, redis, client>>

\* the server answers the POST /auth/refresh one interceptor awaits.  200: the
\* browser takes the new cookie, the interceptor stores the access token and
\* sends its request again.  401: the answer runs through the interceptor as
\* the config of the refresh has no _retry, and another refresh is posted.
\* Anything else rejects up to the catch block, which clears the access token.
RefreshAnswer ==
    \E k \in 1..Len(inflight) :
      LET f == inflight[k]
          limited == hits >= ApiLimit
          o == IF limited THEN SetCookie(Out(users, Fail(429, "Too many requests")))
               ELSE refreshTokenController(users, [NoReq EXCEPT !.cookie = f.cookie], now, env)
      IN /\ f.pc = "refreshing"
         /\ Bounded(o.users, Minted(o.res))
         /\ users' = o.users
         /\ issued' = issued \cup Minted(o.res)
         /\ hits' = IF limited THEN hits ELSE hits + 1
         /\ client' = IF o.res.ok
                      THEN [client EXCEPT !.access = o.res.access, !.cookie = o.cookie.value]
                      ELSE IF o.res.status = 401 THEN client
                      ELSE [client EXCEPT !.access = NoToken]
         /\ inflight' = [inflight EXCEPT ![k] =
               IF o.res.ok THEN [f EXCEPT !.pc = "sent", !.auth = o.res.access]
               ELSE IF o.res.status = 401 THEN [f EXCEPT !.cookie = client.cookie]
               ELSE [f EXCEPT !.pc = "rejected"]]
         /\ UNCHANGED <<now, env, last, procs, blog, redis>>

NextPages ==
    \/ RegisterAccount
    \/ Tick
    \/ ClientLogin
    \/ PageRequest
    \/ FlightAnswer
    \/ RefreshAnswer

SpecPages == Init /\ [][NextPages]_vars

\* ================================================================ properties
TokenSet(u) == {u.refreshTokens[k] : k \in 1..Len(u.refreshTokens)}

\* C1: refreshToken(t) succeeds, returning a new access and refresh token, if
\* and only if t verifies under the refresh secret, has not expired, names an
\* existing active user and is in that user's refreshTokens; otherwise it
\* fails and mints nothing.
C1_RefreshIffRegistered ==
    \A t \in Presentable \ {NoToken} :
      LET out == refreshToken(users, t, now, env)
          usable == /\ t.key = env.JWT_REFRESH_SECRET
                    /\ now < t.exp
                    /\ t.uid \in UserIds(users)
                    /\ users[t.uid].isActive
                    /\ t \in TokenSet(users[t.uid])
      IN /\ out.res.ok <=> usable
         /\ out.res.ok => /\ out.res.access # NoToken
                          /\ out.res.refresh # NoToken
                          /\ out.res.refresh \in TokenSet(out.users[t.uid])
         /\ ~out.res.ok => /\ Minted(out.res) = {}
                           /\ \A i \in UserIds(users) :
                                TokenSet(out.users[i]) \subseteq TokenSet(users[i])

\* a refresh request has just been answered with a new pair of tokens
C1_Witness ==
    /\ last.op = "refresh"
    /\ last.ok
    /\ users[last.uid].refreshTokens # <<>>

\* C2: after refreshToken(A) succeeds returning B, a second refreshToken(A)
\* fails with 'Invalid refresh token' and a refreshToken(B) after it fails too.
C2_RotatedTokenIsDead ==
    [][\A A \in issued :
         LET o1 == refreshToken(users, A, now, env) IN
         (last'.op = "refresh" /\ last'.ok /\ o1.res.ok /\ users' = o1.users) =>
            LET o2 == refreshToken(users', A, now', env)
                o3 == refreshToken(o2.users, o1.res.refresh, now', env)
            IN /\ ~o2.res.ok
               /\ o2.res.msg = "Invalid refresh token"
               /\ ~o3.res.ok]_vars

\* C3: of two refresh requests in flight that present the same registered
\* token, at most one succeeds.
C3_OneWinner ==
    \A v, w \in Workers :
      (v # w /\ procs[v].pc = "done" /\ procs[w].pc = "done" /\ procs[v].tok = procs[w].tok)
         => ~(procs[v].res.ok /\ procs[w].res.ok)

\* C4: once logoutAll has completed for an active user, every refresh token
\* issued to that user before it, if unexpired, is refused by refreshToken
\* with 'Invalid refresh token', whatever requests were served before.
C4_LogoutAllRevokes ==
    \A u \in UserIds(users) :
      users[u].isActive =>
        LET o == logoutAllController(users, u) IN
        /\ o.res.ok
        /\ o.users[u].refreshTokens = <<>>
        /\ \A t \in RefreshTokensOf(u) :
             now < t.exp =>
                LET r == refreshToken(o.users, t, now, env) IN
                /\ ~r.res.ok
                /\ r.res.msg = "Invalid refresh token"
                /\ Minted(r.res) = {}

\* logoutAll has just been served for a user who holds an unexpired refresh token
C4_Witness ==
    /\ last.op = "logoutAll"
    /\ \E t \in RefreshTokensOf(last.uid) : now < t.exp

\* C5: changePassword with the correct current password succeeds, stores the
\* hash of the new password and leaves refreshTokens empty, so that every
\* refresh token issued to the user before is refused afterwards.
C5_ChangePasswordRevokes ==
    \A i \in UserIds(users), cur \in Passwords, new \in Passwords :
      comparePassword(users[i], cur) =>
        LET o == changePassword(users, i, cur, new) IN
        /\ o.res.ok
        /\ comparePassword(o.users[i], new)
        /\ o.users[i].password # new
        /\ o.users[i].refreshTokens = <<>>
        /\ \A t \in RefreshTokensOf(i) : ~refreshToken(o.users, t, now, env).res.ok
        /\ \A k \in UserIds(users) : k # i => o.users[k] = users[k]

\* a password has just been changed for a user who holds an unexpired refresh token
C5_Witness ==
    /\ last.op = "changePassword"
    /\ last.ok
    /\ \E t \in RefreshTokensOf(last.uid) : now < t.exp

\* C6: a successful refreshToken(t) returns a refresh token other than t, and
\* a successful login returns a refresh token that is not yet in the user's
\* refreshTokens.
C6_FreshToken ==
    /\ \A t \in issued :
         LET o == refreshToken(users, t, now, env) IN
         o.res.ok => o.res.refresh # t
    /\ \A email \in Emails, password \in Passwords :
         LET o == login(users, email, password, now, env) IN
         o.res.ok => o.res.refresh \notin TokenSet(users[findOneByEmail(users, email)])

\* C7: login with the stored password of an active user succeeds; an unknown
\* email, an inactive account and a wrong password are all answered with the
\* same 401 'Invalid email or password' and leave the same state behind.
C7_LoginIndistinguishable ==
    \A email \in Emails, password \in Passwords :
      LET i == findOneByEmail(users, email)
          o == login(users, email, password, now, env)
          good == i # 0 /\ users[i].isActive /\ users[i].password = hashPassword(password)
      IN /\ good => o.res.ok /\ o.res.refresh \in TokenSet(o.users[i])
         /\ ~good => /\ ~o.res.ok
                     /\ o.users = users
                     /\ \A email2 \in Emails, password2 \in Passwords :
                          LET o2 == login(users, email2, password2, now, env) IN
                          ~o2.res.ok => o2.res = o.res
                     /\ o.res.status = 401
                     /\ o.res.msg = "Invalid email or password"

\* a login has just been served while an inactive account exists and the
\* other password would be refused
C7_Witness ==
    /\ last.op = "login"
    /\ \E i \in UserIds(users) : ~users[i].isActive
    /\ \E password \in Passwords : ~comparePassword(users[last.uid], password)

\* C8: register answers 'Email already registered' whenever the email is
\* that of an existing user, and 'Username already taken' only when the
\* username is taken and the email is not.
C8_EmailConflictFirst ==
    \A username \in Usernames, email \in Emails, password \in Passwords :
      LET d == [NoReq EXCEPT !.username = username, !.email = email,
                             !.password = password, !.role = "user"]
          matching == {i \in UserIds(users) :
                          users[i].email = email \/ users[i].username = username}
          emailTaken == \E i \in UserIds(users) : users[i].email = email
      IN \A existingUser \in matching :
           LET o == register(users, d, existingUser, now, env) IN
           /\ ~o.res.ok
           /\ emailTaken => o.res.msg = "Email already registered"
           /\ ~emailTaken => o.res.msg = "Username already taken"

\* C9: the logout endpoint always answers 200 and removes the presented
\* refresh token, and only that one, from the caller's refreshTokens, whether
\* the client sent it in the cookie or in the body.
C9_LogoutRemovesPresented ==
    \A u \in UserIds(users), c \in Carriers :
      LET req == [NoReq EXCEPT !.cookie = c.cookie, !.body = c.body]
          t == IF c.cookie # NoToken THEN c.cookie ELSE c.body
          o == logoutController(users, u, req)
      IN /\ o.res.ok
         /\ TokenSet(o.users[u]) = TokenSet(users[u]) \ {t}
         /\ \A i \in UserIds(users) : i # u => o.users[i] = users[i]

\* C10: refreshToken refuses every access token and authenticate refuses
\* every refresh token, whatever the two secrets are.
C10_NoCrossUse ==
    /\ \A t \in issued :
         t.typ = "access" => LET o == refreshToken(users, t, now, env) IN
                             ~o.res.ok /\ Minted(o.res) = {}
    /\ \A t \in issued :
         t.typ = "refresh" => ~authenticate(users, t, now, env).ok

\* the messages of the AuthenticationError (401) the middleware forwards
AuthenticationErrors ==
    {"No valid token provided", "Access token has expired", "Invalid access token",
     "User not found or inactive"}

\* C11: authenticate passes the request on with req.user attached if and only
\* if the header is 'Bearer <token>', the token verifies as an unexpired access
\* token and names an existing active user; otherwise it forwards an
\* AuthenticationError and attaches no user.
C11_AuthenticateIff ==
    \A h \in Headers :
      LET a == authenticate(users, h, now, env)
          good == /\ h.typ = "access"
                  /\ h.key = env.JWT_SECRET
                  /\ now < h.exp
                  /\ h.uid \in UserIds(users)
                  /\ users[h.uid].isActive
      IN /\ a.ok <=> good
         /\ a.ok => a.user = h.uid
         /\ ~a.ok => a.user = 0 /\ a.msg \in AuthenticationErrors

\* a route behind authenticate has just been served while an expired access
\* token and a switched-off account exist
C11_Witness ==
    /\ last.op = "logoutAll"
    /\ \E t \in issued : t.typ = "access" /\ now >= t.exp
    /\ \E i \in UserIds(users) : ~users[i].isActive

\* C12: optionalAuth always calls next() without an error; it attaches
\* req.user exactly when authenticate would, and leaves it unset on a missing
\* or malformed header, a bad or expired token, a missing or inactive user.
C12_OptionalAuthNeverFails ==
    \A h \in Headers :
      LET o == optionalAuth(users, h, now, env)
          a == authenticate(users, h, now, env)
      IN /\ o.ok
         /\ o.msg = ""
         /\ a.ok => o.user = a.user
         /\ ~a.ok => o.user = 0

\* C14: for an existing active user authenticate accepts every unexpired
\* access token whatever refreshTokens holds: a token issued before logout,
\* logoutAll or changePassword is accepted after it.
C14_AccessIgnoresSessions ==
    \A t \in issued :
      (t.typ = "access" /\ now < t.exp /\ users[t.uid].isActive) =>
         /\ authenticate(users, t, now, env).user = t.uid
         /\ authenticate(logoutAllController(users, t.uid).users, t, now, env).user = t.uid
         /\ \A c \in Presentable :
              authenticate(logoutController(users, t.uid, [NoReq EXCEPT !.cookie = c]).users,
                           t, now, env).user = t.uid
         /\ \A cur \in Passwords, new \in Passwords :
              authenticate(changePassword(users, t.uid, cur, new).users, t, now, env).user = t.uid

\* logoutAll has just closed every session of a user whose access token has
\* not expired
C14_Witness ==
    /\ last.op = "logoutAll"
    /\ users[last.uid].isActive
    /\ users[last.uid].refreshTokens = <<>>
    /\ \E t \in issued : t.typ = "access" /\ t.uid = last.uid /\ now < t.exp

\* C19: a refresh token that verifies and names an active user but is not in
\* that user's refreshTokens makes refreshToken empty that user's list, fail
\* with 'Invalid refresh token' and leave every other user untouched.
C19_ReuseClearsAll ==
    \A t \in Presentable \ {NoToken} :
      (/\ verifyRefreshToken(t, now, env).ok
       /\ t.uid \in UserIds(users)
       /\ users[t.uid].isActive
       /\ t \notin TokenSet(users[t.uid])) =>
          LET o == refreshToken(users, t, now, env) IN
          /\ ~o.res.ok
          /\ o.res.msg = "Invalid refresh token"
          /\ o.users = [users EXCEPT ![t.uid].refreshTokens = <<>>]

\* a rotated token has been presented again: the list the rotation left
\* non-empty is empty although no request has succeeded since
C19_Witness ==
    /\ last.op = "refresh"
    /\ users[last.uid].isActive
    /\ users[last.uid].refreshTokens = <<>>
    /\ \E t \in RefreshTokensOf(last.uid) : now < t.exp

\* the refresh token of a response is stored and its user object is the
\* public projection of user i
Returned(o, i) ==
    /\ o.res.refresh \in TokenSet(o.users[i])
    /\ DOMAIN o.res.user \cap {"password", "refreshTokens"} = {}
    /\ o.res.user.id = i
    /\ o.res.user.email = o.users[i].email
    /\ o.res.user.username = o.users[i].username

\* C20: the refresh token returned by a successful register, login or
\* refreshToken is in the owner's stored refreshTokens when the operation
\* returns, and the returned user object holds neither the password hash nor
\* the refresh-token list.
C20_ReturnedTokenStored ==
    /\ \A t \in Presentable \ {NoToken} :
         LET o == refreshToken(users, t, now, env) IN
         o.res.ok => Returned(o, t.uid)
    /\ \A email \in Emails, password \in Passwords :
         LET o == login(users, email, password, now, env) IN
         o.res.ok => Returned(o, findOneByEmail(users, email))
    /\ \A username \in Usernames, email \in Emails, password \in Passwords :
         LET d == [NoReq EXCEPT !.username = username, !.email = email,
                                !.password = password, !.role = "user"]
             o == register(users, d, 0, now, env)
         IN (\A i \in UserIds(users) : users[i].email # email /\ users[i].username # username)
               => o.res.ok /\ Returned(o, Len(users) + 1)

\* a login has just been answered with the token this second's signature gives
C20_Witness ==
    /\ last.op = "login"
    /\ generateRefreshToken(last.uid, now, env) \in TokenSet(users[last.uid])

\* the cookie of a response holds the returned refresh token, lives as long
\* as that token does, and the token is stored for user i
CookieMatches(o, i) ==
    /\ o.cookie.value = o.res.refresh
    /\ o.cookie.maxAge = o.cookie.value.exp - o.cookie.value.iat
    /\ o.cookie.value \in TokenSet(o.users[i])

\* C16: the refresh cookie set by login and by refresh carries a max-age equal
\* to the lifetime of the token in it, whatever JWT_REFRESH_EXPIRE is, and
\* the cookie value is a token stored in the user's refreshTokens.
C16_CookieMatchesToken ==
    /\ \A email \in Emails, password \in Passwords :
         LET req == [NoReq EXCEPT !.email = email, !.password = password]
             o == loginController(users, req, now, env)
         IN o.res.ok => CookieMatches(o, findOneByEmail(users, email))
    /\ \A c \in Carriers :
         LET req == [NoReq EXCEPT !.cookie = c.cookie, !.body = c.body]
             o == refreshTokenController(users, req, now, env)
         IN o.res.ok => CookieMatches(o, o.res.user.id)

\* C13: under every interleaving of register requests no two stored users
\* share an email or a username, and of the requests in flight for the same
\* email or the same username at most one is answered with success.
C13_UniqueUnderRace ==
    /\ \A i, j \in UserIds(users) :
         i # j => users[i].email # users[j].email /\ users[i].username # users[j].username
    /\ \A v, w \in Workers :
         (v # w /\ procs[v].pc = "done" /\ procs[w].pc = "done"
                /\ procs[v].res.ok /\ procs[w].res.ok)
            => /\ procs[v].req.email # procs[w].req.email
               /\ procs[v].req.username # procs[w].req.username

\* two registrations for one email both passed the existence check; one
\* created the user and the other was refused by the index
C13_Witness ==
    \E v, w \in Workers :
      /\ procs[v].pc = "done" /\ procs[v].res.ok
      /\ procs[w].pc = "done" /\ procs[w].res = DuplicateKey
      /\ procs[v].req.email = procs[w].req.email

\* C15: for a request answered with 401 the response interceptor sends at most
\* one POST /auth/refresh and sends the request itself at most twice; a
\* refresh answered with 401 is followed by no further refresh.
C15_OneRefreshOneRetry ==
    /\ client.refreshes <= 1
    /\ client.sent <= 2

\* the callers of the blog API: nobody (0) or an active user
Callers == {0} \cup {u \in UserIds(users) : users[u].isActive}

MayWrite(u, k) == u # 0 /\ (u = posts[k].author \/ users[u].role = "admin")

\* a post has been read through optionalAuth while an expired access token
\* and a switched-off account exist
C12_Witness ==
    /\ \E k \in 1..Len(posts) : posts[k].views > 0
    /\ \E t \in issued : t.typ = "access" /\ now >= t.exp
    /\ \E i \in UserIds(users) : ~users[i].isActive

\* C17: PUT and DELETE on /api/posts/:id succeed for the post's author, draft
\* or published, and for an admin; for every other authenticated caller they
\* answer 403 and leave the post and its comments as they were.
C17_AuthorOrAdminWrites ==
    \A k \in 1..Len(posts), u \in Callers \ {0}, title \in Titles, published \in BOOLEAN :
      posts[k].exists =>
        LET upd == updatePostController(users, posts, comments, u, k,
                                        [title |-> title, published |-> published])
            del == deletePostController(users, posts, comments, u, k)
        IN IF MayWrite(u, k)
           THEN /\ upd.res.ok
                /\ upd.posts[k].title = title
                /\ del.res.ok
                /\ ~del.posts[k].exists
           ELSE /\ upd.res.status = 403
                /\ upd.posts = posts /\ upd.comments = comments
                /\ del.res.status = 403
                /\ del.posts = posts /\ del.comments = comments

\* C18: a draft is returned by getPostById and getPostBySlug to its author and
\* to an admin; every other caller, anonymous or not, is answered as for a
\* post that does not exist.
C18_DraftsForAuthorAndAdmin ==
    \A k \in 1..Len(posts), u \in Callers :
      (posts[k].exists /\ ~posts[k].published) =>
        LET byId == getPostByIdController(posts, comments, u, k)
            bySlug == getPostBySlugController(posts, comments, u, Slug(posts, k))
            missing == getPostByIdController(posts, comments, u, Len(posts) + 1)
        IN IF MayWrite(u, k)
           THEN /\ byId.res.ok /\ byId.res.post = k
                /\ bySlug.res.ok /\ bySlug.res.post = k
           ELSE /\ byId.res = missing.res
                /\ bySlug.res = missing.res
                /\ byId.res.status = 404

\* C21: a successful login adds exactly one refresh token to the user's
\* refreshTokens and removes none; a successful refreshToken(t) removes t and
\* adds exactly one token; every other token registered before is registered
\* after, and is accepted by refreshToken as it was before.
C21_SessionsIndependent ==
    /\ \A email \in Emails, password \in Passwords :
         LET i == findOneByEmail(users, email)
             o == login(users, email, password, now, env)
         IN o.res.ok =>
              /\ o.res.refresh \notin TokenSet(users[i])
              /\ TokenSet(o.users[i]) = TokenSet(users[i]) \cup {o.res.refresh}
              /\ Len(o.users[i].refreshTokens) = Len(users[i].refreshTokens) + 1
    /\ \A t \in issued :
         LET o == refreshToken(users, t, now, env) IN
         o.res.ok =>
           LET before == TokenSet(users[t.uid])
               after == TokenSet(o.users[t.uid])
           IN /\ t \notin after
              /\ after = (before \ {t}) \cup {o.res.refresh}
              /\ Len(o.users[t.uid].refreshTokens) = Len(users[t.uid].refreshTokens)
              /\ \A other \in before \ {t} :
                   refreshToken(o.users, other, now, env).res.ok
                     = refreshToken(users, other, now, env).res.ok

\* what a caller of AuthService.updateProfile can pass as updateData
ProfileData ==
    ProfileBodies \cup
      {[lastName |-> "l2", avatar |-> "a1", role |-> "admin"],
       [firstName |-> "f2", lastName |-> "l2", bio |-> "b1", avatar |-> "a1"],
       [role |-> "admin", email |-> "e2", password |-> hashPassword("p2"), isActive |-> FALSE,
        refreshTokens |-> <<>>]}

Sessions(us) == [i \in UserIds(us) |-> us[i].refreshTokens]

\* C22: authenticate, optionalAuth, getCurrentUser, updateProfile and the
\* post and comment operations leave every user's refreshTokens as they were,
\* and updateProfile changes nothing of any document but the firstName,
\* lastName, bio and avatar of the caller's, which take the values of the body.
C22_OnlySessionManagerWrites ==
    /\ [](\A i \in 1..(Len(users) + 1) :
            /\ getCurrentUser(users, i).users = users
            /\ \A updateData \in ProfileData :
                 LET o == updateProfile(users, i, updateData) IN
                 /\ Len(o.users) = Len(users)
                 /\ \A j \in UserIds(users) :
                      \A k \in DOMAIN users[j] :
                        o.users[j][k] =
                          IF j = i /\ k \in AllowedUpdates /\ k \in DOMAIN updateData
                          THEN updateData[k] ELSE users[j][k])
    /\ [][(GetCurrentUser \/ UpdateProfile \/ PublishPost \/ CreateComment)
            => Sessions(users') = Sessions(users)]_vars

\* a member with an open session has edited the profile: the first name and
\* the bio are those of the bodies, the role and the session are untouched
C22_Witness ==
    /\ last.op = "updateProfile"
    /\ users[last.uid].firstName = "f2"
    /\ users[last.uid].bio = "b1"
    /\ users[last.uid].role = "user"
    /\ users[last.uid].refreshTokens # <<>>

\* no refresh request is between its findById and its last save
Quiet == \A w \in Workers : procs[w].pc \in {"idle", "done"}

\* C23: once a logoutAll or a changePassword and every refresh request that
\* was in flight with it have completed, the user's refreshTokens is empty,
\* also when a refresh request had read the document before the revocation
\* and saved after it.
C23_RevocationFinal ==
    (last.op \in {"logoutAll", "changePassword"} /\ Quiet)
       => users[last.uid].refreshTokens = <<>>

\* the request worker w served was a login that succeeded
LoggedIn(w) ==
    procs[w].pc = "done" /\ procs[w].res.ok /\ procs[w].tok = NoToken /\ procs[w].res.refresh # NoToken

C25_ParallelRefreshKeepsSession ==
    (/\ client.cookie # NoToken
     /\ now < client.cookie.exp
     /\ \A k \in 1..Len(inflight) : inflight[k].pc # "refreshing")
       => client.cookie \in TokenSet(users[client.cookie.uid])

\* the refresh tokens a request can carry, one of an account that is no
\* longer in the collection among them
RefreshInputs == (Presentable \ {NoToken}) \cup {generateRefreshToken(Len(users) + 1, now, env)}

\* C26: a refreshToken call whose token is not signed with the refresh
\* secret, or has expired, or names a missing or inactive user, fails, mints
\* nothing and leaves the users collection as it was; the error is 'Invalid
\* refresh token' for a bad signature, 'Refresh token has expired' for an
\* expired token with a good one, 'User not found or inactive' otherwise.
C26_EarlyFailureWritesNothing ==
    \A t \in RefreshInputs :
      LET o == refreshToken(users, t, now, env)
          signed == t.key = env.JWT_REFRESH_SECRET
          expired == now >= t.exp
          gone == t.uid \notin UserIds(users) \/ ~users[t.uid].isActive
      IN (~signed \/ expired \/ gone) =>
           /\ ~o.res.ok
           /\ o.users = users
           /\ Minted(o.res) = {}
           /\ o.res.msg = IF ~signed THEN "Invalid refresh token"
                          ELSE IF expired THEN "Refresh token has expired"
                          ELSE "User not found or inactive"

\* a refresh has been served and time has passed: the token it rotated away
\* has expired while its owner, still active, has a session to lose
C26_Witness ==
    /\ last.op = "refresh"
    /\ \E t \in issued :
         /\ t.typ = "refresh" /\ t.key = env.JWT_REFRESH_SECRET /\ now >= t.exp
         /\ users[t.uid].isActive
         /\ users[t.uid].refreshTokens # <<>>

\* C27: changePassword with a current password that is not the stored one, or
\* for a user that does not exist, fails (401, 404), leaves every document,
\* password hash and refreshTokens included, as it was, and the handler does
\* not clear the refresh cookie.
C27_FailedChangeWritesNothing ==
    \A i \in 1..(Len(users) + 1), cur \in Passwords, new \in Passwords :
      LET req == [NoReq EXCEPT !.password = cur, !.newPassword = new]
          o == changePasswordController(users, i, req)
          missing == i \notin UserIds(users)
      IN (missing \/ users[i].password # hashPassword(cur)) =>
           /\ ~o.res.ok
           /\ o.res.status = IF missing THEN 404 ELSE 401
           /\ o.users = users
           /\ ~o.cleared

\* a password has been changed to "p2" while another member has a session
\* open: a further change that names "p1" as the current password must fail
C27_Witness ==
    /\ last.op = "changePassword"
    /\ users[last.uid].password = hashPassword("p2")
    /\ \E i \in UserIds(users) : users[i].refreshTokens # <<>>

\* C28: the access token the AuthContext stores after a successful login, and
\* after a successful registration, is the access token of that response, and
\* the server accepts it as the Bearer token of the next request.
C28_StoredTokenIsIssued ==
    /\ \A email \in Emails, password \in Passwords :
         LET o == loginController(users, [NoReq EXCEPT !.email = email, !.password = password],
                                  now, env)
             stored == onSuccess(loginData(o))
         IN o.res.ok => /\ stored = o.res.access
                        /\ authenticate(o.users, stored, now, env).ok
    /\ \A d \in Signups :
         LET o == registerController(users, d, 0, now, env)
             stored == onSuccess(registerData(o))
         IN o.res.ok => /\ stored = o.res.access
                        /\ authenticate(o.users, stored, now, env).ok

\* C29: no comment refers to a post that has been deleted, whatever comment
\* requests were in flight while deletePost ran.
C29_NoOrphanComment ==
    \A k \in 1..Len(posts) :
      ~posts[k].exists => \A c \in comments : c.post # k

\* C30: once every write to a post has answered and its invalidation has
\* finished, the cache holds no response that predates the write: a stored
\* post is the post of the database, with its title and its publication.
InvalidationPending == \E w \in Workers : procs[w].pc \in {"keys", "del"}

C30_NoStaleResponse ==
    ~InvalidationPending =>
      \A e \in redis :
        /\ e.post \in 1..Len(posts)
        /\ posts[e.post].exists
        /\ posts[e.post].title = e.data.title
        /\ posts[e.post].published = e.data.published

\* what cache() stores: responses with a 2xx status, one for a user id and URL
StoredAreSuccessful ==
    /\ \A e \in redis : e.status >= 200 /\ e.status < 300
    /\ \A e, f \in redis : CacheKey(e) = CacheKey(f) => e = f

====
